---- MODULE Spec2Model ----
(***************************************************************************)
(* eth-contract-classifier: the classification engine of src/index.js.     *)
(*                                                                         *)
(* JavaScript strings that are inspected character by character (selectors,*)
(* bytecode hex text) are sequences of one-character strings.  Results of  *)
(* the classifiers are sequences of string pieces whose concatenation is   *)
(* the JavaScript string: <<"ERC20">>, <<"DELEGATECALL to 0x">> \o hex.    *)
(***************************************************************************)
EXTENDS Integers, Sequences, FiniteSets, TLC

VARIABLES op, abi, bytecode, percent, result

\* the state of one call of the asynchronous getProxyAddress: where the
\* function stands, the RPC requests sent so far, the probe promises, the
\* promise of Promise.any, the response of the first probe to fulfil, and
\* whether a later probe has fulfilled with another response
VARIABLES pc, sent, probes, beaconAddress, race, first, late

\* the state of one call of the Chained Resolver getErcByNode: the chain
\* (the bytecode and the proxy targets of every address), where the
\* resolver stands, its visited set, the targets it has still to look at,
\* the concatenated bytecodes, and how often each address was fetched
VARIABLES codeAt, targetsOf, position, visited, stack, space, fetches

callVars == <<op, abi, bytecode, percent, result>>
proxyVars == <<pc, sent, probes, beaconAddress, race, first, late>>
nodeVars == <<codeAt, targetsOf, position, visited, stack, space, fetches>>

vars == <<callVars, proxyVars, nodeVars>>

(***************************************************************************)
(* Bounds of the model.                                                    *)
(***************************************************************************)
\* longest candidate ABI (number of entries)
MaxAbiLen == 3
\* longest bytecode (number of code fragments after the 0x prefix)
MaxChunks == 3

(***************************************************************************)
(* Strings.                                                                *)
(***************************************************************************)
Min(a, b) == IF a <= b THEN a ELSE b

\* Array.prototype.filter is SelectSeq, and Array.prototype.map the function
\* [i \in 1..Len(s) |-> f(s[i])], held as an array: a sequence value.
array(f) == <<>> \o f

\* String.prototype.includes / Array.prototype.includes on a string
includes(text, item) ==
    \/ item = <<>>
    \/ \E i \in 0..(Len(text) - Len(item)) :
           /\ text[i + 1] = item[1]
           /\ \A k \in 2..Len(item) : text[i + k] = item[k]

\* Array.prototype.includes
arrayIncludes(arr, item) == \E i \in 1..Len(arr) : arr[i] = item

\* String.prototype.replace("0x", ""): the first occurrence is removed
replace0x(s) ==
    LET hits == {i \in 1..(Len(s) - 1) : s[i] = "0" /\ s[i + 1] = "x"}
    IN IF hits = {} THEN s
       ELSE LET i == CHOOSE j \in hits : \A k \in hits : j <= k
            IN SubSeq(s, 1, i - 1) \o SubSeq(s, i + 2, Len(s))

\* String.prototype.replace(/^0+/, ''): the leading zero digits are removed
RECURSIVE replaceLeadingZeros(_)
replaceLeadingZeros(s) ==
    IF s # <<>> /\ Head(s) = "0" THEN replaceLeadingZeros(Tail(s)) ELSE s

(***************************************************************************)
(* The ABI signature encoder (web3.eth.abi): Keccak-256 of the canonical   *)
(* signature, as a table over the signatures the model uses.               *)
(***************************************************************************)
keccak4(sig) ==
    CASE sig = "balanceOf(address)" -> <<"7","0","a","0","8","2","3","1">>
      [] sig = "transfer(address,uint256)" -> <<"a","9","0","5","9","c","b","b">>
      [] sig = "approve(address,uint256)" -> <<"0","9","5","e","a","7","b","3">>
      [] sig = "ownerOf(uint256)" -> <<"6","3","5","2","2","1","1","e">>
      [] sig = "getApproved(uint256)" -> <<"0","8","1","8","1","2","f","c">>
      [] sig = "balanceOf(address,uint256)" -> <<"0","0","f","d","d","5","8","e">>
      [] sig = "balanceOfBatch(address[],uint256[])" -> <<"4","e","1","2","7","3","f","4">>
      [] sig = "uri(uint256)" -> <<"0","e","8","9","3","4","1","c">>
      [] sig = "name()" -> <<"0","6","f","d","d","e","0","3">>
      [] sig = "implementation()" -> <<"5","c","6","0","d","a","1","b">>
      [] sig = "Transfer(address,address,uint256)" -> <<"d","d","f","2","5","2","a","d">>

keccakTail(sig) ==
    CASE sig = "Transfer(address,address,uint256)" ->
           <<"1","b","e","2","c","8","9","b","6","9","c","2","b","0","6","8",
             "f","c","3","7","8","d","a","a","9","5","2","b","a","7","f","1",
             "6","3","c","4","a","1","1","6","2","8","f","5","5","a","4","d",
             "f","5","2","3","b","3","e","f">>

\* web3.eth.abi.encodeFunctionSignature: "0x" and the first 4 bytes of the hash
encodeFunctionSignature(item) == <<"0", "x">> \o keccak4(item.sig)

\* web3.eth.abi.encodeEventSignature: "0x" and the 32 bytes of the hash
encodeEventSignature(item) == <<"0", "x">> \o keccak4(item.sig) \o keccakTail(item.sig)

(***************************************************************************)
(* ABI entries.                                                            *)
(***************************************************************************)
Fn(sig) == [type |-> "function", sig |-> sig]
Ev(sig) == [type |-> "event", sig |-> sig]

balanceOf == Fn("balanceOf(address)")
transfer == Fn("transfer(address,uint256)")
approve == Fn("approve(address,uint256)")
ownerOf == Fn("ownerOf(uint256)")
getApproved == Fn("getApproved(uint256)")
balanceOf1155 == Fn("balanceOf(address,uint256)")
balanceOfBatch == Fn("balanceOfBatch(address[],uint256[])")
uri == Fn("uri(uint256)")
name == Fn("name()")
TransferEvent == Ev("Transfer(address,address,uint256)")
constructorEntry == [type |-> "constructor", sig |-> "constructor()"]

\* the entries candidate ABIs are built from
AbiEntries ==
    {balanceOf, transfer, approve, ownerOf, balanceOf1155, balanceOfBatch,
     TransferEvent, constructorEntry}

RECURSIVE SeqsUpTo(_, _)
SeqsUpTo(S, n) ==
    IF n = 0 THEN {<<>>}
    ELSE LET shorter == SeqsUpTo(S, n - 1)
         IN shorter \cup {Append(s, x) : s \in shorter, x \in S}

Abis == SeqsUpTo(AbiEntries, MaxAbiLen)

(***************************************************************************)
(* getSigs                                                                 *)
(***************************************************************************)
isFunction(item) == item.type = "function"
isEvent(item) == item.type = "event"

functionSig(item) == replaceLeadingZeros(replace0x(encodeFunctionSignature(item)))
eventSig(item) == replaceLeadingZeros(replace0x(encodeEventSignature(item)))

\* getSigs stopping at the first entry that is neither a function nor an event
getSigsUntilOther(a) ==
    LET others == {i \in 1..Len(a) : ~isFunction(a[i]) /\ ~isEvent(a[i])}
        upTo == IF others = {} THEN Len(a)
                ELSE (CHOOSE i \in others : \A k \in others : i <= k) - 1
        kept == SubSeq(a, 1, upTo)
        functions == SelectSeq(kept, isFunction)
        events == SelectSeq(kept, isEvent)
    IN [i \in 1..Len(functions) |-> functionSig(functions[i])]
           \o [i \in 1..Len(events) |-> eventSig(events[i])]

getSigs(a) ==
    LET functions == SelectSeq(a, isFunction)
        events == SelectSeq(a, isEvent)
        abiFunctions == [i \in 1..Len(functions) |-> functionSig(functions[i])]
        abiEvents == [i \in 1..Len(events) |-> eventSig(events[i])]
    IN abiFunctions \o abiEvents

(***************************************************************************)
(* isABI                                                                   *)
(***************************************************************************)
\* isABI passing an ABI as soon as one of its selectors is found
isABISome(a, code) ==
    LET sigs == getSigs(a) IN \E i \in 1..Len(sigs) : includes(code, sigs[i])

isABI(a, code) ==
    LET sigs == getSigs(a) IN \A i \in 1..Len(sigs) : includes(code, sigs[i])

(***************************************************************************)
(* The Reference Standard Registry.  The bundled abis/*.json files are     *)
(* reduced to a few entries per tier, with min within full within max.     *)
(***************************************************************************)
\* Object.keys(abis)
abisKeys == <<"erc1155", "erc721", "erc20">>

\* Object.keys(abisMin), Object.keys(abisMax)
abisMinKeys == <<"erc20", "erc721", "erc1155">>

abis(key) ==
    CASE key = "erc20" -> <<balanceOf, transfer, approve, TransferEvent>>
      [] key = "erc721" -> <<balanceOf, ownerOf, approve, getApproved, TransferEvent>>
      [] key = "erc1155" -> <<balanceOf1155, balanceOfBatch>>

abisMin(key) ==
    CASE key = "erc20" -> <<balanceOf, transfer>>
      [] key = "erc721" -> <<ownerOf>>
      [] key = "erc1155" -> <<balanceOf1155>>

abisMax(key) ==
    CASE key = "erc20" -> <<balanceOf, transfer, approve, name, TransferEvent>>
      [] key = "erc721" -> <<balanceOf, ownerOf, approve, getApproved, name, TransferEvent>>
      [] key = "erc1155" -> <<balanceOf1155, balanceOfBatch, uri>>

\* String.prototype.toUpperCase on a registry key
toUpperCase(key) ==
    CASE key = "erc20" -> "ERC20"
      [] key = "erc721" -> "ERC721"
      [] key = "erc1155" -> "ERC1155"

\* the absence value
undefined == <<"undefined">>

(***************************************************************************)
(* Array.prototype.sort with a comparator, which is stable: an insertion   *)
(* sort that puts each element after the elements that do not compare      *)
(* above it.  The comparator is given as the table c[i][j] of its results  *)
(* on the elements s[i] and s[j].                                          *)
(***************************************************************************)
\* the index x put into the sorted sequence of indices
insert(order, x, c) ==
    LET after == {k \in 1..Len(order) : c[order[k]][x] > 0}
        at == IF after = {} THEN Len(order) + 1
              ELSE CHOOSE k \in after : \A l \in after : k <= l
    IN SubSeq(order, 1, at - 1) \o <<x>> \o SubSeq(order, at, Len(order))

sort(s, c) ==
    LET sorted[k \in 0..Len(s)] ==
            IF k = 0 THEN <<>> ELSE insert(sorted[k - 1], k, c)
        order == sorted[Len(s)]
    IN array([k \in 1..Len(s) |-> s[order[k]]])

(***************************************************************************)
(* Percent mode.  A percent 100 * n / checks is kept as the fraction       *)
(* num / checks with num = 100 * n, and compared by cross-multiplication.  *)
(***************************************************************************)
\* comparePercents without the tie-break on checks
comparePercentsNoTieBreak(a, b) == b.num * a.checks - a.num * b.checks

comparePercents(a, b) ==
    IF a.num * b.checks = b.num * a.checks
    THEN b.checks - a.checks
    ELSE b.num * a.checks - a.num * b.checks

\* the threshold test with > in place of >=
moreThan(entry, threshold) == entry.num > threshold * entry.checks

atLeast(entry, threshold) == entry.num >= threshold * entry.checks

\* percents.sort((a, b) => ...)
sortPercents(percents) ==
    sort(percents,
         [i \in 1..Len(percents) |->
             [j \in 1..Len(percents) |-> comparePercents(percents[i], percents[j])]])

percentsByAbi(a) ==
    LET sigs == getSigs(a)
        entry(key) ==
            LET standard == getSigs(abis(key))
                checks == Len(standard)
                inStandard(item) == arrayIncludes(standard, item)
            IN [key |-> key,
                num |-> 100 * Len(SelectSeq(sigs, inStandard)),
                checks |-> checks]
    IN array([i \in 1..Len(abisKeys) |-> entry(abisKeys[i])])

getErcByAbiPercent(a, threshold) ==
    LET percents == sortPercents(percentsByAbi(a))
    IN IF atLeast(percents[1], threshold)
       THEN <<toUpperCase(percents[1].key)>>
       ELSE undefined

(***************************************************************************)
(* Min-gate + max-score mode.                                              *)
(***************************************************************************)
\* comparePoints sorting the lowest score first
comparePointsAscending(a, b) == a.points - b.points

comparePoints(a, b) == b.points - a.points

\* a sort that is not stable: equal scores come out in reverse order
sortPointsUnstable(points) ==
    sort(points,
         [i \in 1..Len(points) |->
             [j \in 1..Len(points) |->
                 IF points[i].points = points[j].points
                 THEN (IF i < j THEN 1 ELSE IF i > j THEN -1 ELSE 0)
                 ELSE comparePoints(points[i], points[j])]])

\* points.sort((a, b) => b.points - a.points)
sortPoints(points) ==
    sort(points,
         [i \in 1..Len(points) |->
             [j \in 1..Len(points) |-> comparePoints(points[i], points[j])]])

\* the min gate passing a standard when one of its mandatory selectors is present
pointsByAbiAnyMin(a) ==
    LET sigs == getSigs(a)
        passes(key) ==
            LET required == getSigs(abisMin(key))
            IN \E i \in 1..Len(required) : arrayIncludes(sigs, required[i])
        entry(key) ==
            LET inAbi(item) == arrayIncludes(sigs, item)
            IN [key |-> key, points |-> Len(SelectSeq(getSigs(abisMax(key)), inAbi))]
        passed == SelectSeq(abisMinKeys, passes)
    IN array([i \in 1..Len(passed) |-> entry(passed[i])])

pointsByAbi(a) ==
    LET sigs == getSigs(a)
        passes(key) ==
            LET required == getSigs(abisMin(key))
            IN \A i \in 1..Len(required) : arrayIncludes(sigs, required[i])
        entry(key) ==
            LET inAbi(item) == arrayIncludes(sigs, item)
            IN [key |-> key, points |-> Len(SelectSeq(getSigs(abisMax(key)), inAbi))]
        passed == SelectSeq(abisMinKeys, passes)
    IN array([i \in 1..Len(passed) |-> entry(passed[i])])

getErcByAbi(a) ==
    LET points == pointsByAbi(a)
    IN IF Len(points) > 0
       THEN <<toUpperCase(sortPoints(points)[1].key)>>
       ELSE undefined

(***************************************************************************)
(* The EVM decoder (new EVM(bytecode).getOpcodes(), Contract.opcodes()):   *)
(* a linear sweep over the bytes of the hex text; a PUSHn takes the next   *)
(* n bytes, or what is left of the code, as its pushData.                  *)
(***************************************************************************)
HexDigits == <<"0","1","2","3","4","5","6","7","8","9","a","b","c","d","e","f">>
UpperHexDigits == <<"0","1","2","3","4","5","6","7","8","9","A","B","C","D","E","F">>

isHex(c) == \E i \in 1..16 : HexDigits[i] = c \/ UpperHexDigits[i] = c

hexValue(c) == (CHOOSE i \in 1..16 : HexDigits[i] = c \/ UpperHexDigits[i] = c) - 1

\* Buffer.from(code.replace('0x', ''), 'hex'): the whole bytes of the hex text
\* up to the first character that is no hex digit
codeBytes(code) ==
    LET text == replace0x(code)
        bad == {i \in 1..Len(text) : ~isHex(text[i])}
        valid == IF bad = {} THEN Len(text)
                 ELSE (CHOOSE i \in bad : \A k \in bad : i <= k) - 1
    IN array([i \in 1..(valid \div 2) |->
                 16 * hexValue(text[2 * i - 1]) + hexValue(text[2 * i])])

\* Buffer.prototype.toString('hex'): two lower-case digits for each byte
toHex(bytes) ==
    array([i \in 1..(2 * Len(bytes)) |->
              IF i % 2 = 1 THEN HexDigits[(bytes[(i + 1) \div 2] \div 16) + 1]
                           ELSE HexDigits[(bytes[i \div 2] % 16) + 1]])

isPush(byte) == byte >= 96 /\ byte <= 127

mnemonic(byte) ==
    CASE byte = 244 -> "DELEGATECALL"
      [] byte = 99 -> "PUSH4"
      [] byte = 115 -> "PUSH20"
      [] byte = 127 -> "PUSH32"
      [] isPush(byte) -> "PUSH"
      [] OTHER -> "OTHER"

\* pushData is kept as its toString('hex')
RECURSIVE opcodesFrom(_, _)
opcodesFrom(bytes, index) ==
    IF index > Len(bytes) THEN <<>>
    ELSE LET byte == bytes[index]
             size == IF isPush(byte) THEN byte - 95 ELSE 0
             data == SubSeq(bytes, index + 1, Min(index + size, Len(bytes)))
         IN <<[name |-> mnemonic(byte), pushData |-> toHex(data)]>>
                \o opcodesFrom(bytes, index + size + 1)

getOpcodes(code) == opcodesFrom(codeBytes(code), 1)

\* Array.prototype.find returns the first element that passes: the head of
\* SelectSeq, when there is one.
isDELEGATECALL(item) == item.name = "DELEGATECALL"
isPUSH20(item) == item.name = "PUSH20"

(***************************************************************************)
(* The Proxy Detector.                                                     *)
(***************************************************************************)
implementationAbi == <<Fn("implementation()")>>

\* getProxyStatus testing the implementation() pattern before the PUSH20
getProxyStatusImplementationFirst(code) ==
    LET opcodes == getOpcodes(code)
        push20 == SelectSeq(opcodes, isPUSH20)
    IN IF SelectSeq(opcodes, isDELEGATECALL) # <<>>
       THEN IF isABI(implementationAbi, code)
            THEN <<"IMPLEMENTATION">>
            ELSE IF push20 # <<>>
                 THEN <<"DELEGATECALL to 0x">> \o push20[1].pushData
                 ELSE <<"DELEGATECALL">>
       ELSE undefined

getProxyStatus(code) ==
    LET opcodes == getOpcodes(code)
        push20 == SelectSeq(opcodes, isPUSH20)
    IN IF SelectSeq(opcodes, isDELEGATECALL) # <<>>
       THEN IF push20 # <<>>
            THEN <<"DELEGATECALL to 0x">> \o push20[1].pushData
            ELSE IF isABI(implementationAbi, code)
                 THEN <<"IMPLEMENTATION">>
                 ELSE <<"DELEGATECALL">>
       ELSE undefined

\* lines 83-86 decode with sevm's Contract.opcodes(); the same sweep here
isDelegateCall(code) == SelectSeq(getOpcodes(code), isDELEGATECALL) # <<>>

(***************************************************************************)
(* The Bytecode Classifier.                                                *)
(***************************************************************************)
percentsByBytecode(code) ==
    LET entry(key) ==
            LET checks == Len(getSigs(abis(key)))
                inCode(item) == includes(code, replaceLeadingZeros(item))
            IN [key |-> key,
                num |-> 100 * Len(SelectSeq(getSigs(abis(key)), inCode)),
                checks |-> checks]
    IN array([i \in 1..Len(abisKeys) |-> entry(abisKeys[i])])

getErcByBytecodePercent(code, threshold) ==
    LET percents == sortPercents(percentsByBytecode(code))
    IN IF atLeast(percents[1], threshold)
       THEN <<toUpperCase(percents[1].key)>>
       ELSE IF isDelegateCall(code) THEN <<"DELEGATECALL">> ELSE undefined

pointsByBytecode(code) ==
    LET passes(key) == isABI(abisMin(key), code)
        entry(key) ==
            LET inCode(item) == includes(code, item)
            IN [key |-> key, points |-> Len(SelectSeq(getSigs(abisMax(key)), inCode))]
        passed == SelectSeq(abisMinKeys, passes)
    IN array([i \in 1..Len(passed) |-> entry(passed[i])])

\* getErcByBytecode reporting a proxy before it classifies
getErcByBytecodeProxyFirst(code) ==
    LET points == pointsByBytecode(code)
    IN IF getProxyStatus(code) # undefined
       THEN getProxyStatus(code)
       ELSE IF Len(points) > 0
            THEN <<toUpperCase(sortPoints(points)[1].key)>>
            ELSE undefined

getErcByBytecode(code) ==
    LET points == pointsByBytecode(code)
    IN IF Len(points) > 0
       THEN <<toUpperCase(sortPoints(points)[1].key)>>
       ELSE getProxyStatus(code)

\* the variant of index.js lines 210-221, which reports a bare DELEGATECALL
getErcByBytecodeDelegate(code) ==
    LET points == pointsByBytecode(code)
    IN IF Len(points) > 0
       THEN <<toUpperCase(sortPoints(points)[1].key)>>
       ELSE IF isDelegateCall(code) THEN <<"DELEGATECALL">> ELSE undefined

(***************************************************************************)
(* Candidate bytecodes: "0x" and up to MaxChunks code fragments.           *)
(***************************************************************************)
Rep(c, n) == [i \in 1..n |-> c]

PUSH4(sig) == <<"6", "3">> \o keccak4(sig)
PUSH20(address) == <<"7", "3">> \o address

AddressA == Rep("a", 40)
AddressB == Rep("b", 40)
\* the address B written with upper-case digits
UpperAddressB == Rep("B", 40)

Chunks ==
    {<<"f", "4">>,
     PUSH20(AddressA),
     PUSH20(UpperAddressB),
     PUSH4("balanceOf(address)"),
     PUSH4("transfer(address,uint256)"),
     PUSH4("ownerOf(uint256)"),
     PUSH4("balanceOf(address,uint256)") \o PUSH4("balanceOfBatch(address[],uint256[])"),
     PUSH4("implementation()")}

RECURSIVE concat(_)
concat(ss) == IF ss = <<>> THEN <<>> ELSE Head(ss) \o concat(Tail(ss))

Bytecodes == {<<"0", "x">> \o concat(cs) : cs \in SeqsUpTo(Chunks, MaxChunks)}

\* the thresholds the percent mode is called with (100 is the default)
Thresholds == {0, 50, 51, 100}

\* the ABIs isABI is called with: the registry's min tier, the
\* implementation() ABI of getProxyStatus, the empty ABI and one other
IsAbiAbis ==
    {abisMin("erc20"), abisMin("erc721"), abisMin("erc1155"), implementationAbi,
     <<>>, <<TransferEvent, approve>>}

(***************************************************************************)
(* getProxyAddress(address, web3Url, bytecode): the bytecode inspection    *)
(* and the probes of the live contract.  Strings the code inspects are     *)
(* sequences of characters; a value that is no string is null.             *)
(***************************************************************************)
null == <<"null">>

isString(value) == value # null /\ value # undefined

\* the storage slots and call data of the probes, by their leading bytes
SLOTS == <<"0x360894a1", "0x7050c9e0", "0xc5f16f0f">>
EIP_1967_BEACON_SLOT == "0xa3f0ad74"
EIP_1167_BEACON_METHODS == <<"0x5c60da1b", "0xda525716">>
INTERFACES == <<"0x5c60da1b", "0xa619486e", "0xbb82aa5e">>

\* the requests of the RPC collaborator
getCodeRequest(address) == [method |-> "getCode", to |-> address, data |-> ""]
getStorageAt(address, slot) == [method |-> "getStorageAt", to |-> address, data |-> slot]
call(address, data) == [method |-> "call", to |-> address, data |-> data]

zeroAddress == <<"0", "x">> \o Rep("0", 40)

\* String.prototype.slice(-40)
sliceLast40(s) == SubSeq(s, Len(s) - 39, Len(s))

\* the reaction .then(getAddress): the address, or a throw that rejects the probe
getAddress(value) ==
    IF ~isString(value) \/ value = <<"0", "x">>
    THEN [threw |-> TRUE, value |-> undefined]
    ELSE LET address == IF Len(value) = 66
                        THEN <<"0", "x">> \o sliceLast40(value)
                        ELSE value
         IN IF address = zeroAddress
            THEN [threw |-> TRUE, value |-> undefined]
            ELSE [threw |-> FALSE, value |-> address]

\* new EVM(bytecode) throws on a value that has no replace method
decoderThrows(code) == ~isString(code)

\* the bytecode inspection taking the last PUSH20
literalTargetLastPush(code) ==
    LET opcodes == getOpcodes(code)
        push == SelectSeq(opcodes, isPUSH20)
    IN IF SelectSeq(opcodes, isDELEGATECALL) # <<>> /\ push # <<>>
       THEN <<"0", "x">> \o push[Len(push)].pushData
       ELSE undefined

\* lines 101-104: "0x" and the operand of the first PUSH20 when the opcodes
\* hold a DELEGATECALL and a PUSH20 (its pushData is a Buffer: truthy)
literalTarget(code) ==
    LET opcodes == getOpcodes(code)
        push == SelectSeq(opcodes, isPUSH20)
    IN IF SelectSeq(opcodes, isDELEGATECALL) # <<>> /\ push # <<>>
       THEN <<"0", "x">> \o push[1].pushData
       ELSE undefined

\* the probes: 1..3 read SLOTS, 4..6 call INTERFACES, 7 is the beacon chain
Probes == 1..7
BeaconProbe == 7

\* the request a probe sends when requests.push(...) builds it
firstRequest(address, i) ==
    IF i <= 3 THEN getStorageAt(address, SLOTS[i])
    ELSE IF i <= 6 THEN call(address, INTERFACES[i - 3])
    ELSE getStorageAt(address, EIP_1967_BEACON_SLOT)

\* a promise: pending, fulfilled with a value, or rejected
Pending == [state |-> "pending", value |-> undefined]
Fulfilled(value) == [state |-> "fulfilled", value |-> value]
Rejected == [state |-> "rejected", value |-> undefined]

\* Promise.race in place of Promise.any: the first probe to settle decides
promiseRace(promise, settled, remaining) ==
    IF promise.state # "pending" THEN promise ELSE settled

\* a combinator that waits until every request has settled
promiseAfterAll(promise, settled, remaining) ==
    IF promise.state # "pending" \/ remaining > 0 THEN promise ELSE settled

\* Promise.any(requests) after one more request has settled, with the
\* number of requests that remain pending: it fulfils with the first
\* fulfilment and rejects once every request has rejected
promiseAny(promise, settled, remaining) ==
    IF promise.state # "pending" THEN promise
    ELSE IF settled.state = "fulfilled" THEN settled
    ELSE IF remaining = 0 THEN Rejected
    ELSE promise

\* an exception that leaves getProxyAddress
uncaught(e) == [pc |-> "threw", result |-> <<e>>]

\* catch(e){ console.log(e) } and return proxyAddress, which is not yet set
caught(e) == [pc |-> "done", result |-> undefined]

(***************************************************************************)
(* The exposed calls; one action is one whole call.                        *)
(***************************************************************************)
NoBytecode == <<>>

\* no call of getProxyAddress is under way
ProxyIdle ==
    /\ pc = "idle"
    /\ sent = {}
    /\ probes = <<>>
    /\ beaconAddress = undefined
    /\ race = Pending
    /\ first = undefined
    /\ late = FALSE

\* no call of getErcByNode is under way
NodeIdle ==
    /\ codeAt = <<>>
    /\ targetsOf = <<>>
    /\ position = "idle"
    /\ visited = {}
    /\ stack = <<>>
    /\ space = <<>>
    /\ fetches = <<>>

Init ==
    /\ op = "init"
    /\ abi = <<>>
    /\ bytecode = NoBytecode
    /\ percent = 100
    /\ result = <<>>
    /\ ProxyIdle
    /\ NodeIdle

CallGetSigs ==
    /\ op = "init"
    /\ UNCHANGED <<proxyVars, nodeVars>>
    /\ \E a \in Abis :
        /\ op' = "getSigs"
        /\ abi' = a
        /\ bytecode' = NoBytecode
        /\ percent' = 100
        /\ result' = getSigs(a)

CallIsABI ==
    /\ op = "init"
    /\ UNCHANGED <<proxyVars, nodeVars>>
    /\ \E a \in IsAbiAbis, code \in Bytecodes :
        /\ op' = "isABI"
        /\ abi' = a
        /\ bytecode' = code
        /\ percent' = 100
        /\ result' = isABI(a, code)

CallGetErcByAbiPercent ==
    /\ op = "init"
    /\ UNCHANGED <<proxyVars, nodeVars>>
    /\ \E a \in Abis, threshold \in Thresholds :
        /\ op' = "getErcByAbiPercent"
        /\ abi' = a
        /\ bytecode' = NoBytecode
        /\ percent' = threshold
        /\ result' = getErcByAbiPercent(a, threshold)

CallGetErcByBytecodePercent ==
    /\ op = "init"
    /\ UNCHANGED <<proxyVars, nodeVars>>
    /\ \E code \in Bytecodes, threshold \in Thresholds :
        /\ op' = "getErcByBytecodePercent"
        /\ abi' = <<>>
        /\ bytecode' = code
        /\ percent' = threshold
        /\ result' = getErcByBytecodePercent(code, threshold)

CallGetErcByAbi ==
    /\ op = "init"
    /\ UNCHANGED <<proxyVars, nodeVars>>
    /\ \E a \in Abis :
        /\ op' = "getErcByAbi"
        /\ abi' = a
        /\ bytecode' = NoBytecode
        /\ percent' = 100
        /\ result' = getErcByAbi(a)

CallGetErcByBytecode ==
    /\ op = "init"
    /\ UNCHANGED <<proxyVars, nodeVars>>
    /\ \E code \in Bytecodes :
        /\ op' = "getErcByBytecode"
        /\ abi' = <<>>
        /\ bytecode' = code
        /\ percent' = 100
        /\ result' = getErcByBytecode(code)

CallGetErcByBytecodeDelegate ==
    /\ op = "init"
    /\ UNCHANGED <<proxyVars, nodeVars>>
    /\ \E code \in Bytecodes :
        /\ op' = "getErcByBytecodeDelegate"
        /\ abi' = <<>>
        /\ bytecode' = code
        /\ percent' = 100
        /\ result' = getErcByBytecodeDelegate(code)

CallGetProxyStatus ==
    /\ op = "init"
    /\ UNCHANGED <<proxyVars, nodeVars>>
    /\ \E code \in Bytecodes :
        /\ op' = "getProxyStatus"
        /\ abi' = <<>>
        /\ bytecode' = code
        /\ percent' = 100
        /\ result' = getProxyStatus(code)

\* the call has returned and the caller makes the next one
Return ==
    /\ op # "init"
    /\ UNCHANGED <<proxyVars, nodeVars>>
    /\ op' = "init"
    /\ abi' = <<>>
    /\ bytecode' = NoBytecode
    /\ percent' = 100
    /\ result' = <<>>

Next ==
    \/ CallGetSigs
    \/ CallIsABI
    \/ CallGetErcByAbiPercent
    \/ CallGetErcByBytecodePercent
    \/ CallGetErcByAbi
    \/ CallGetErcByBytecode
    \/ CallGetErcByBytecodeDelegate
    \/ CallGetProxyStatus
    \/ Return

Spec == Init /\ [][Next]_vars

(***************************************************************************)
(* One call of getProxyAddress.  The steps are the runs of the function    *)
(* between its awaits and the settling of each RPC request with the        *)
(* reactions chained on it.                                                *)
(***************************************************************************)
\* the address argument: the contract under inspection
ContractAddress == <<"0", "x">> \o Rep("c", 40)

\* a storage word or call result that holds an address in its low 20 bytes
Word(address) == <<"0", "x">> \o Rep("0", 24) \o address

AllOnes == Rep("f", 40)

\* what a request can fulfil with: an empty result, a zero word, the zero
\* address, a word with an address, a word with the all-ones address, a
\* quantity without padding, and a value that is no string
Responses ==
    {<<"0", "x">>, Word(Rep("0", 40)), zeroAddress, Word(AddressA), Word(AllOnes),
     <<"0", "x", "0">>, null}

\* how a request settles
Settlements ==
    {[ok |-> TRUE, value |-> v] : v \in Responses} \cup {[ok |-> FALSE, value |-> undefined]}

\* the bytecode argument: left out, or a proxy with a literal target, with
\* two PUSH20, or with a PUSH20 that the end of the code cuts short
ProxyArguments ==
    {NoBytecode,
     <<"0", "x">> \o PUSH20(AddressA) \o <<"f", "4">>,
     <<"0", "x">> \o PUSH20(UpperAddressB) \o PUSH20(AddressA) \o <<"f", "4">>,
     <<"0", "x", "f", "4">> \o PUSH20(<<"a", "a">>)}

\* what getCode can fulfil with: a proxy with a literal target, a contract
\* with a PUSH20 and no DELEGATECALL, and a value that is no string
FetchedCodes ==
    {<<"0", "x">> \o <<"f", "4">> \o PUSH20(AddressA),
     <<"0", "x">> \o PUSH20(AddressA),
     null}

ProxyInit ==
    /\ op = "getProxyAddress"
    /\ abi = <<>>
    /\ bytecode \in ProxyArguments
    /\ percent = 100
    /\ result = <<>>
    /\ pc = "start"
    /\ sent = {}
    /\ probes = <<>>
    /\ beaconAddress = undefined
    /\ race = Pending
    /\ first = undefined
    /\ late = FALSE
    /\ NodeIdle

\* the function leaves the try block with an exit: its pc and its result
Exit(exit) ==
    /\ pc' = exit.pc
    /\ result' = exit.result
    /\ UNCHANGED <<sent, probes, beaconAddress, race, first, late>>

\* the bytecode inspection of every bytecode of the model, computed once
inspected ==
    [code \in {c \in ProxyArguments \cup FetchedCodes : ~decoderThrows(c)} |->
        literalTarget(code)]

\* lines 100-127 up to the await of Promise.any: decode the bytecode, then
\* return the literal target or send the first request of every probe
Inspect(code) ==
    IF decoderThrows(code) THEN Exit(caught("TypeError"))
    ELSE IF inspected[code] # undefined
         THEN Exit([pc |-> "done", result |-> inspected[code]])
         ELSE /\ pc' = "race"
              /\ sent' = sent \cup {firstRequest(ContractAddress, i) : i \in Probes}
              /\ probes' = [i \in Probes |-> [state |-> "pending", stage |-> 1]]
              /\ UNCHANGED <<result, beaconAddress, race, first, late>>

\* lines 96-99: the call starts; without a bytecode it asks for the code
Enter ==
    /\ pc = "start"
    /\ UNCHANGED <<op, abi, bytecode, percent, nodeVars>>
    /\ \/ /\ bytecode = NoBytecode
          /\ pc' = "getCode"
          /\ sent' = sent \cup {getCodeRequest(ContractAddress)}
          /\ UNCHANGED <<result, probes, beaconAddress, race, first, late>>
       \/ /\ bytecode # NoBytecode
          /\ Inspect(bytecode)

\* the getCode request settles: a rejection goes to the catch block
GetCodeSettles ==
    /\ pc = "getCode"
    /\ UNCHANGED <<op, abi, percent, nodeVars>>
    /\ \/ /\ Exit(caught("getCode rejected"))
          /\ UNCHANGED bytecode
       \/ \E code \in FetchedCodes :
              /\ bytecode' = code
              /\ Inspect(code)

\* what a settled request makes of a probe at a stage: the state of the
\* probe promise, its value, and the request the probe sends next.  Of a
\* probe the state keeps whether it is pending or settled, and its stage.
probeStep(i, stage, settled) ==
    LET address == getAddress(settled.value)
        ends == IF settled.ok /\ ~address.threw
                THEN [promise |-> Fulfilled(address.value), stage |-> stage, request |-> {}]
                ELSE [promise |-> Rejected, stage |-> stage, request |-> {}]
    IN IF i # BeaconProbe THEN ends
       ELSE IF stage = 1
            THEN IF settled.ok /\ ~address.threw
                 THEN [promise |-> Pending, stage |-> 2,
                       request |-> {call(address.value, EIP_1167_BEACON_METHODS[1])}]
                 ELSE ends
       ELSE IF stage = 2 /\ ~settled.ok
            THEN [promise |-> Pending, stage |-> 3,
                  request |-> {call(beaconAddress, EIP_1167_BEACON_METHODS[2])}]
       ELSE ends

\* the request a probe waits for settles and the reactions on it run
ProbeSettles(i) ==
    /\ probes # <<>>
    /\ probes[i].state = "pending"
    /\ UNCHANGED <<callVars, pc, nodeVars>>
    /\ \E settled \in Settlements :
        LET step == probeStep(i, probes[i].stage, settled)
            now == [probes EXCEPT ![i] =
                       [state |-> IF step.promise.state = "pending" THEN "pending" ELSE "settled",
                        stage |-> step.stage]]
        IN /\ probes' = now
           /\ sent' = sent \cup step.request
           /\ beaconAddress' = IF i = BeaconProbe /\ probes[i].stage = 1 /\ step.stage = 2
                               THEN getAddress(settled.value).value
                               ELSE beaconAddress
           /\ race' = IF step.promise.state = "pending" THEN race
                      ELSE promiseAny(race, step.promise,
                                      Cardinality({k \in Probes : now[k].state = "pending"}))
           /\ first' = IF step.promise.state = "fulfilled" /\ first = undefined
                       THEN settled.value ELSE first
           /\ late' = \/ late
                      \/ /\ step.promise.state = "fulfilled"
                         /\ first # undefined
                         /\ settled.value # first

\* the await of Promise.any(requests).catch(() => undefined) resumes and
\* the function returns
Resume ==
    /\ pc = "race"
    /\ race.state # "pending"
    /\ pc' = "done"
    /\ result' = IF race.state = "fulfilled" THEN race.value ELSE undefined
    /\ UNCHANGED <<op, abi, bytecode, percent, sent, probes, beaconAddress, race, first, late>>
    /\ UNCHANGED nodeVars

ProxyNext ==
    \/ Enter
    \/ GetCodeSettles
    \/ \E i \in Probes : ProbeSettles(i)
    \/ Resume

\* every request the call has sent settles, and the event loop runs the
\* continuations that are ready: while a step is possible, one is taken
ProxyFairness == WF_vars(ProxyNext)

ProxySpec == ProxyInit /\ [][ProxyNext]_vars /\ ProxyFairness

(***************************************************************************)
(* The Chained Resolver getErcByNode(address, rpcUrl).  When the bytecode  *)
(* of the address yields no standard, it walks the proxy targets depth     *)
(* first: a target that is not yet visited is fetched, its bytecode is     *)
(* appended to the search space and its own targets are looked at next;    *)
(* then the Bytecode Classifier runs once over the concatenation.          *)
(***************************************************************************)
\* the addresses of a chain, in the order their targets are listed
Nodes == <<"A", "B", "T">>

NodeSet == {Nodes[i] : i \in 1..Len(Nodes)}

\* the bytecode of a node: a forwarder, an ERC20 token or an ERC721 token
NodeCodes ==
    {<<"f", "4">>,
     PUSH4("balanceOf(address)") \o PUSH4("transfer(address,uint256)"),
     PUSH4("ownerOf(uint256)")}

\* the proxy targets the Proxy Detector finds for an address: at most two
TargetSets == {t \in SUBSET NodeSet : Cardinality(t) <= 2}

\* the targets of a node as the list the detector returns
targetList(node) == SelectSeq(Nodes, LAMBDA n : n \in targetsOf[node])

\* the Bytecode Classifier over every search space of the model: "0x" and
\* the bytecodes of the visited nodes; computed once
classifyBytecode ==
    [code \in {<<"0", "x">> \o concat(cs) : cs \in SeqsUpTo(NodeCodes, Len(Nodes))} |->
        getErcByBytecode(code)]

\* a label of the registry
isStandard(label) == label \in {<<"ERC20">>, <<"ERC721">>, <<"ERC1155">>}

\* the membership test that never finds a target in the visited set
notVisitedEver(node, seen) == TRUE

\* the visited-set membership test
notVisited(node, seen) == node \notin seen

NodeInit ==
    /\ op = "getErcByNode"
    /\ abi = <<>>
    /\ bytecode = NoBytecode
    /\ percent = 100
    /\ result = <<>>
    /\ ProxyIdle
    /\ codeAt \in [NodeSet -> NodeCodes]
    /\ targetsOf \in [NodeSet -> TargetSets]
    /\ position = "start"
    /\ visited = {}
    /\ stack = <<>>
    /\ space = <<>>
    /\ fetches = [n \in NodeSet |-> 0]

\* the bytecode of the address is fetched and classified; without a
\* standard the walk starts at its targets
Start ==
    /\ position = "start"
    /\ LET code == <<"0", "x">> \o codeAt[Nodes[1]]
           erc == classifyBytecode[code]
       IN /\ bytecode' = code
          /\ fetches' = [fetches EXCEPT ![Nodes[1]] = @ + 1]
          /\ IF isStandard(erc)
             THEN /\ position' = "done"
                  /\ result' = erc
                  /\ UNCHANGED <<visited, stack, space>>
             ELSE /\ position' = "walk"
                  /\ visited' = {Nodes[1]}
                  /\ space' = code
                  /\ stack' = targetList(Nodes[1])
                  /\ UNCHANGED result
    /\ UNCHANGED <<op, abi, percent, proxyVars, codeAt, targetsOf>>

\* the next target: skipped when it is in the visited set, else fetched,
\* appended to the search space, and its targets come first
Visit ==
    /\ position = "walk"
    /\ stack # <<>>
    /\ LET node == Head(stack)
       IN IF notVisited(node, visited)
          THEN /\ visited' = visited \cup {node}
               /\ fetches' = [fetches EXCEPT ![node] = @ + 1]
               /\ space' = space \o replace0x(<<"0", "x">> \o codeAt[node])
               /\ stack' = targetList(node) \o Tail(stack)
          ELSE /\ stack' = Tail(stack)
               /\ UNCHANGED <<visited, fetches, space>>
    /\ UNCHANGED <<callVars, proxyVars, codeAt, targetsOf, position>>

\* no target is left: the classifier runs over the concatenation
Classify ==
    /\ position = "walk"
    /\ stack = <<>>
    /\ position' = "done"
    /\ result' = classifyBytecode[space]
    /\ UNCHANGED <<op, abi, bytecode, percent, proxyVars>>
    /\ UNCHANGED <<codeAt, targetsOf, visited, stack, space, fetches>>

NodeNext ==
    \/ Start
    \/ Visit
    \/ Classify

\* the resolver keeps walking while a step is possible
NodeSpec == NodeInit /\ [][NodeNext]_vars /\ WF_vars(NodeNext)

(***************************************************************************)
(* Vocabulary of the properties.                                           *)
(***************************************************************************)
Keys == {"erc20", "erc721", "erc1155"}

Label(key) == <<toUpperCase(key)>>

Range(s) == {s[i] : i \in 1..Len(s)}

\* the selectors of an ABI, as a set
SigSet(a) == Range(getSigs(a))

MinSet(key) == SigSet(abisMin(key))
FullSet(key) == SigSet(abis(key))
MaxSet(key) == SigSet(abisMax(key))

\* sel occurs in text as a substring
Substring(sel, text) ==
    \E i \in 1..(Len(text) - Len(sel) + 1) : SubSeq(text, i, i + Len(sel) - 1) = sel

\* the standards whose min set an ABI holds, and their scores
QualifiesByAbi(a) == {key \in Keys : MinSet(key) \subseteq SigSet(a)}
ScoreByAbi(a, key) == Cardinality(SigSet(a) \cap MaxSet(key))

\* the standards whose min set a bytecode text holds, and their scores
QualifiesByBytecode(code) ==
    {key \in Keys : \A sel \in MinSet(key) : Substring(sel, code)}
ScoreByBytecode(code, key) ==
    Cardinality({sel \in MaxSet(key) : Substring(sel, code)})

\* the permutations of the entries of a sequence
Shuffles(s) ==
    {[i \in 1..Len(s) |-> s[p[i]]] :
        p \in {q \in [1..Len(s) -> 1..Len(s)] : \A i, j \in 1..Len(s) : q[i] = q[j] => i = j}}

(***************************************************************************)
(* C1.  Min-gate mode: getErcByAbi returns the label of a standard only if *)
(* the whole min set of that standard is in getSigs(abi), and it returns   *)
(* the absence value exactly when no standard has its whole min set in     *)
(* getSigs(abi); an ABI that lacks a mandatory ERC20 selector is never     *)
(* labelled ERC20.                                                         *)
(***************************************************************************)
C1_MinGate ==
    op = "getErcByAbi" =>
        /\ \A key \in Keys : result = Label(key) => MinSet(key) \subseteq SigSet(abi)
        /\ result = undefined <=> QualifiesByAbi(abi) = {}
        /\ (\E sel \in MinSet("erc20") : sel \notin SigSet(abi)) => result # Label("erc20")

\* an ABI with balanceOf and the Transfer event but no transfer gets no label
C1_Witness ==
    /\ op = "getErcByAbi"
    /\ abi = <<balanceOf, TransferEvent, balanceOf>>
    /\ result = undefined

(***************************************************************************)
(* C2.  Min-gate mode: the label getErcByAbi returns is that of a          *)
(* qualifying standard whose score, the number of selectors of its max set *)
(* in getSigs(abi), is the highest among the qualifying standards.         *)
(***************************************************************************)
C2_HighestScore ==
    (op = "getErcByAbi" /\ QualifiesByAbi(abi) # {}) =>
        \E key \in QualifiesByAbi(abi) :
            /\ result = Label(key)
            /\ \A other \in QualifiesByAbi(abi) :
                   ScoreByAbi(abi, other) <= ScoreByAbi(abi, key)

\* two standards qualify and the one later in the registry scores higher and wins
C2_Witness ==
    /\ op = "getErcByAbi"
    /\ QualifiesByAbi(abi) = {"erc721", "erc1155"}
    /\ ScoreByAbi(abi, "erc721") < ScoreByAbi(abi, "erc1155")
    /\ result = Label("erc1155")

(***************************************************************************)
(* C3.  Percent mode: the percent of a standard is                         *)
(* 100 * |getSigs(abi) \cap full| / |full|, a set intersection, so between *)
(* 0 and 100 also for an ABI that lists an entry more than once;           *)
(* getErcByAbiPercent returns the label of the standard with the highest   *)
(* percent if that percent reaches the threshold, else the absence value.  *)
(***************************************************************************)
\* 100 * |getSigs(a) \cap full(key)| / |full(key)| as the fraction num / den
SetPercentNum(a, key) == 100 * Cardinality(SigSet(a) \cap FullSet(key))
SetPercentDen(key) == Cardinality(FullSet(key))

HighestSetPercent(a) ==
    {key \in Keys : \A other \in Keys :
        SetPercentNum(a, other) * SetPercentDen(key)
            <= SetPercentNum(a, key) * SetPercentDen(other)}

C3_SetPercent ==
    op = "getErcByAbiPercent" =>
        /\ \A i \in 1..Len(percentsByAbi(abi)) :
               /\ percentsByAbi(abi)[i].num
                      = SetPercentNum(abi, percentsByAbi(abi)[i].key)
               /\ percentsByAbi(abi)[i].num <= 100 * percentsByAbi(abi)[i].checks
        /\ IF \E key \in Keys : SetPercentNum(abi, key) >= percent * SetPercentDen(key)
           THEN \E key \in HighestSetPercent(abi) : result = Label(key)
           ELSE result = undefined

(***************************************************************************)
(* C4.  Percent mode, by ABI and by bytecode: when two or more standards   *)
(* have the same highest percent, the one with the larger full selector    *)
(* set is the one chosen.  The percent is the one the call computes.       *)
(***************************************************************************)
\* the entries of a percent table no other entry has a higher percent than
Highest(percents) ==
    {i \in 1..Len(percents) : \A j \in 1..Len(percents) :
        percents[j].num * percents[i].checks <= percents[i].num * percents[j].checks}

TieBreak(percents, threshold) ==
    \A i \in Highest(percents), j \in Highest(percents) :
        (/\ Cardinality(FullSet(percents[i].key)) > Cardinality(FullSet(percents[j].key))
         /\ percents[i].num >= threshold * percents[i].checks)
            => /\ result # Label(percents[j].key)
               /\ \E k \in Highest(percents) : result = Label(percents[k].key)

C4_TieBreak ==
    /\ op = "getErcByAbiPercent" => TieBreak(percentsByAbi(abi), percent)
    /\ op = "getErcByBytecodePercent" => TieBreak(percentsByBytecode(bytecode), percent)

\* ERC1155 (1 of 2) and ERC20 (2 of 4) tie at 50 and ERC20, listed last, is chosen
C4_Witness ==
    /\ op = "getErcByAbiPercent"
    /\ abi = <<balanceOf, transfer, balanceOf1155>>
    /\ percent = 50
    /\ result = Label("erc20")

(***************************************************************************)
(* C5.  Percent mode: for every ABI whose selector set holds exactly 50%   *)
(* of the full selector set of ERC20, getErcByAbiPercent(abi, 50) returns  *)
(* "ERC20" and getErcByAbiPercent(abi, 51) returns the absence value.      *)
(***************************************************************************)
C5_HalfOfErc20 ==
    (/\ op = "getErcByAbiPercent"
     /\ 2 * Cardinality(SigSet(abi) \cap FullSet("erc20")) = Cardinality(FullSet("erc20")))
        => /\ percent = 50 => result = Label("erc20")
           /\ percent = 51 => result = undefined

\* the percent getErcByAbiPercent computes for a standard, as num / checks
ComputedPercent(a, key) ==
    LET percents == percentsByAbi(a)
    IN percents[CHOOSE i \in 1..Len(percents) : percents[i].key = key]

\* ERC20 is computed at exactly 50 and every other standard is computed
\* lower, or at 50 too with a smaller full set
Erc20FirstAtHalf(a) ==
    LET erc20 == ComputedPercent(a, "erc20")
    IN /\ erc20.num = 50 * erc20.checks
       /\ \A key \in Keys \ {"erc20"} :
              LET other == ComputedPercent(a, key)
              IN \/ other.num < 50 * other.checks
                 \/ /\ other.num = 50 * other.checks
                    /\ other.checks < erc20.checks

\* C5 as amended: for every ABI for which the percent the call computes
\* for ERC20 is exactly 50 and ERC20 ranks first (every other standard is
\* computed lower, or equal with a smaller full set), threshold 50 gives
\* "ERC20" and threshold 51 gives the absence value.
C5_HalfOfErc20Ranked ==
    (op = "getErcByAbiPercent" /\ Erc20FirstAtHalf(abi))
        => /\ percent = 50 => result = Label("erc20")
           /\ percent = 51 => result = undefined

C5_Witness ==
    /\ op = "getErcByAbiPercent"
    /\ Erc20FirstAtHalf(abi)
    /\ \E key \in Keys \ {"erc20"} : ComputedPercent(abi, key).num > 0
    /\ percent = 50
    /\ result = Label("erc20")

(***************************************************************************)
(* C6.  isABI(abi, bytecode) is true if and only if every selector of      *)
(* getSigs(abi) occurs as a substring of the bytecode text; for an ABI     *)
(* with no function or event entry it is true for every bytecode.          *)
(***************************************************************************)
C6_IsABI ==
    op = "isABI" =>
        /\ result = TRUE <=> \A sel \in SigSet(abi) : Substring(sel, bytecode)
        /\ (\A i \in 1..Len(abi) : abi[i].type \notin {"function", "event"})
               => result = TRUE

\* both mandatory ERC20 selectors are found in the bytecode
C6_Witness ==
    /\ op = "isABI"
    /\ abi = abisMin("erc20")
    /\ result = TRUE

(***************************************************************************)
(* C7.  getSigs is independent of the order of the entries: every          *)
(* permutation of the ABI gives the same selectors as a set; entries that  *)
(* are neither a function nor an event contribute no selector.             *)
(***************************************************************************)
isFunctionOrEvent(item) == isFunction(item) \/ isEvent(item)

C7_OrderIndependent ==
    op = "getSigs" =>
        /\ \A shuffled \in Shuffles(abi) : Range(getSigs(shuffled)) = Range(result)
        /\ result = getSigs(SelectSeq(abi, isFunctionOrEvent))
        /\ Len(result) = Len(SelectSeq(abi, isFunctionOrEvent))

\* an event, a constructor and a function: the function's selector comes
\* first and the constructor gives none
C7_Witness ==
    /\ op = "getSigs"
    /\ abi = <<TransferEvent, constructorEntry, balanceOf1155>>
    /\ Len(result) = 2
    /\ result[1] = <<"f","d","d","5","8","e">>

(***************************************************************************)
(* C8.  The SignatureSet getSigs returns has duplicates collapsed: no      *)
(* selector occurs in it more than once, also when the ABI lists the same  *)
(* function or event in several entries.                                   *)
(***************************************************************************)
C8_NoDuplicates ==
    op = "getSigs" =>
        \A i, j \in 1..Len(result) : result[i] = result[j] => i = j

(***************************************************************************)
(* C9.  getErcByBytecode: if a standard's min set is wholly in the         *)
(* bytecode text, the result is the label of the qualifying standard with  *)
(* the most max-tier selectors in the text, never a proxy finding; if no   *)
(* standard qualifies, the result is what the Proxy Detector returns.      *)
(* The variant of lines 210-221 has isDelegateCall as its detector.        *)
(***************************************************************************)
BestByBytecode(code) ==
    \E key \in QualifiesByBytecode(code) :
        /\ result = Label(key)
        /\ \A other \in QualifiesByBytecode(code) :
               ScoreByBytecode(code, other) <= ScoreByBytecode(code, key)

C9_BytecodeFallback ==
    /\ op = "getErcByBytecode" =>
           IF QualifiesByBytecode(bytecode) # {}
           THEN BestByBytecode(bytecode)
           ELSE result = getProxyStatus(bytecode)
    /\ op = "getErcByBytecodeDelegate" =>
           IF QualifiesByBytecode(bytecode) # {}
           THEN BestByBytecode(bytecode)
           ELSE result = IF isDelegateCall(bytecode) THEN <<"DELEGATECALL">> ELSE undefined

\* a proxy with a literal target that also holds the ERC721 min set is ERC721
C9_Witness ==
    /\ op = "getErcByBytecode"
    /\ getProxyStatus(bytecode) = <<"DELEGATECALL to 0x">> \o AddressA
    /\ result = Label("erc721")

(***************************************************************************)
(* C10.  getProxyStatus, in priority order: DELEGATECALL and a PUSH20:     *)
(* "DELEGATECALL to <pushed address>"; DELEGATECALL, no PUSH20, and the    *)
(* bytecode compatible with the implementation() ABI: "IMPLEMENTATION";    *)
(* DELEGATECALL and neither: "DELEGATECALL"; no DELEGATECALL opcode: the   *)
(* absence value, whatever PUSH20 or selectors the bytecode holds.         *)
(***************************************************************************)
HasOpcode(code, mnem) ==
    \E i \in 1..Len(getOpcodes(code)) : getOpcodes(code)[i].name = mnem

HasImplementationSelector(code) ==
    Substring(<<"5","c","6","0","d","a","1","b">>, code)

C10_ProxyPriority ==
    op = "getProxyStatus" =>
        LET opcodes == getOpcodes(bytecode)
            delegate == HasOpcode(bytecode, "DELEGATECALL")
            push20 == HasOpcode(bytecode, "PUSH20")
        IN /\ (delegate /\ push20) =>
                  \E i \in 1..Len(opcodes) :
                      /\ opcodes[i].name = "PUSH20"
                      /\ result = <<"DELEGATECALL to 0x">> \o opcodes[i].pushData
           /\ (delegate /\ ~push20 /\ HasImplementationSelector(bytecode)) =>
                  result = <<"IMPLEMENTATION">>
           /\ (delegate /\ ~push20 /\ ~HasImplementationSelector(bytecode)) =>
                  result = <<"DELEGATECALL">>
           /\ ~delegate => result = undefined

\* DELEGATECALL, a PUSH20 and the implementation() selector: the PUSH20 wins
C10_Witness ==
    /\ op = "getProxyStatus"
    /\ HasOpcode(bytecode, "DELEGATECALL")
    /\ HasImplementationSelector(bytecode)
    /\ result = <<"DELEGATECALL to 0x">> \o AddressA

(***************************************************************************)
(* C11.  For a bytecode whose opcode stream holds a PUSH20 of a 20-byte    *)
(* address X immediately followed by DELEGATECALL, the Proxy Detector      *)
(* names X as the target, also when other PUSH20 instructions with other   *)
(* operands come before that one.                                          *)
(***************************************************************************)
C11_TargetPrecedesDelegatecall ==
    op = "getProxyStatus" =>
        LET opcodes == getOpcodes(bytecode)
        IN \A i \in 1..(Len(opcodes) - 1) :
               (/\ opcodes[i].name = "PUSH20"
                /\ Len(opcodes[i].pushData) = 40
                /\ opcodes[i + 1].name = "DELEGATECALL")
                   => result = <<"DELEGATECALL to 0x">> \o opcodes[i].pushData

(***************************************************************************)
(* C17.  Min-gate mode, getErcByAbi and getErcByBytecode: when several     *)
(* qualifying standards share the highest score, the result is the one     *)
(* that comes first in the registry order erc20, erc721, erc1155.          *)
(***************************************************************************)
\* the place of a standard in the registry order
RegistryPlace(key) == CASE key = "erc20" -> 1 [] key = "erc721" -> 2 [] key = "erc1155" -> 3

C17_TieRegistryOrder ==
    /\ (op = "getErcByAbi" /\ QualifiesByAbi(abi) # {}) =>
           \E key \in QualifiesByAbi(abi) :
               /\ result = Label(key)
               /\ \A other \in QualifiesByAbi(abi) :
                      \/ ScoreByAbi(abi, other) < ScoreByAbi(abi, key)
                      \/ /\ ScoreByAbi(abi, other) = ScoreByAbi(abi, key)
                         /\ RegistryPlace(key) <= RegistryPlace(other)
    /\ (op \in {"getErcByBytecode", "getErcByBytecodeDelegate"}
            /\ QualifiesByBytecode(bytecode) # {}) =>
           \E key \in QualifiesByBytecode(bytecode) :
               /\ result = Label(key)
               /\ \A other \in QualifiesByBytecode(bytecode) :
                      \/ ScoreByBytecode(bytecode, other) < ScoreByBytecode(bytecode, key)
                      \/ /\ ScoreByBytecode(bytecode, other) = ScoreByBytecode(bytecode, key)
                         /\ RegistryPlace(key) <= RegistryPlace(other)

\* ERC721 and ERC1155 qualify by bytecode with the same score: ERC721
C17_Witness ==
    /\ op = "getErcByBytecode"
    /\ QualifiesByBytecode(bytecode) = {"erc721", "erc1155"}
    /\ ScoreByBytecode(bytecode, "erc721") = ScoreByBytecode(bytecode, "erc1155")
    /\ result = Label("erc721")

(***************************************************************************)
(* Vocabulary of the properties of getProxyAddress.                        *)
(***************************************************************************)
\* the probes have been issued
Raced == probes # <<>>

PendingProbes == IF Raced THEN {i \in Probes : probes[i].state = "pending"} ELSE {}

\* the address a response stands for: the low 20 bytes of a 32-byte word
DecodedAddress(response) ==
    IF Len(response) = 66
    THEN <<"0", "x">> \o SubSeq(response, 27, 66)
    ELSE response

\* a response that disqualifies its probe: no string, '0x', the zero address
Disqualifying(response) ==
    \/ response = null
    \/ response = <<"0", "x">>
    \/ DecodedAddress(response) = <<"0", "x">> \o Rep("0", 40)

\* '0x' and 40 hexadecimal digits
WellFormedAddress(value) ==
    /\ Len(value) = 42
    /\ value[1] = "0"
    /\ value[2] = "x"
    /\ \A i \in 3..42 : isHex(value[i])

\* the bytecode was passed by the caller
Passed == bytecode \in ProxyArguments \ {NoBytecode}

(***************************************************************************)
(* C12.  The first request of every probe is sent before the race is       *)
(* awaited; the result of a call that raced is the address of the first    *)
(* probe, in completion order, to fulfil with a valid address, and the     *)
(* absence value when none did; a probe that rejects or decodes to an      *)
(* invalid value does not settle the race while others are pending; what   *)
(* settles after the return never changes the returned value.              *)
(***************************************************************************)
C12_Race ==
    /\ pc = "race" => \A i \in Probes : firstRequest(ContractAddress, i) \in sent
    /\ first # undefined => ~Disqualifying(first)
    /\ (pc = "done" /\ Raced) =>
           result = IF first = undefined THEN undefined ELSE DecodedAddress(first)
    /\ race.state = "rejected" => (first = undefined /\ PendingProbes = {})
    /\ (first = undefined /\ PendingProbes # {}) => race.state = "pending"
    /\ race.state = "fulfilled" => race.value = DecodedAddress(first)

C12_FirstValidWins == [](C12_Race) /\ [][pc = "done" => result' = result]_vars

\* the call has returned address A; a probe that fulfilled later with
\* another response, and every other probe, has settled
C12_Witness ==
    /\ pc = "done"
    /\ result = <<"0", "x">> \o AddressA
    /\ late
    /\ Raced /\ PendingProbes = {}

(***************************************************************************)
(* C13.  getProxyAddress never throws to its caller: when every probe has  *)
(* failed, when getCode rejects and when the bytecode cannot be decoded,   *)
(* it returns the absence value.                                           *)
(***************************************************************************)
C13_NeverThrows ==
    /\ pc \in {"start", "getCode", "race", "done"}
    /\ (pc = "done" /\ Raced /\ first = undefined) => result = undefined
    /\ (pc = "done" /\ getCodeRequest(ContractAddress) \in sent /\ bytecode = NoBytecode) =>
           result = undefined
    /\ (pc = "done" /\ ~isString(bytecode)) => result = undefined
    /\ (pc = "race" /\ Raced /\ PendingProbes = {}) => race.state # "pending"

\* getCode has rejected and the call has returned the absence value
C13_Witness ==
    /\ pc = "done"
    /\ getCodeRequest(ContractAddress) \in sent
    /\ bytecode = NoBytecode
    /\ result = undefined

(***************************************************************************)
(* C14.  A response counts as a target only if it decodes to a 20-byte     *)
(* address that is neither the zero address nor the all-ones address: a    *)
(* call that raced never returns either of the two.                        *)
(***************************************************************************)
C14_NeitherZeroNorAllOnes ==
    (pc = "done" /\ Raced) =>
        /\ result # <<"0", "x">> \o Rep("0", 40)
        /\ result # <<"0", "x">> \o AllOnes

(***************************************************************************)
(* C16.  When the bytecode holds a DELEGATECALL and a PUSH20 with operand  *)
(* data, the call returns '0x' and the operand of the first PUSH20 and     *)
(* sends no getStorageAt and no call request; probes are issued only when  *)
(* the inspection finds no such pair; with a bytecode passed by the caller *)
(* getCode is not requested.                                               *)
(***************************************************************************)
C16_LiteralTargetNoProbes ==
    LET opcodes == IF isString(bytecode) THEN getOpcodes(bytecode) ELSE <<>>
        pushes == {i \in 1..Len(opcodes) :
                      opcodes[i].name = "PUSH20" /\ opcodes[i].pushData # <<>>}
        delegates == {i \in 1..Len(opcodes) : opcodes[i].name = "DELEGATECALL"}
        firstPush == CHOOSE i \in pushes : \A k \in pushes : i <= k
    IN /\ (pc \in {"race", "done"} /\ pushes # {} /\ delegates # {}) =>
              /\ pc = "done"
              /\ result = <<"0", "x">> \o opcodes[firstPush].pushData
              /\ ~Raced
              /\ \A request \in sent : request.method = "getCode"
       /\ Raced => (pushes = {} \/ delegates = {})
       /\ Passed => getCodeRequest(ContractAddress) \notin sent

\* a passed bytecode with two PUSH20 and a DELEGATECALL: the call returns
\* the first operand and has sent nothing
C16_Witness ==
    /\ pc = "done"
    /\ Passed
    /\ result = <<"0", "x">> \o AddressB
    /\ sent = {}

(***************************************************************************)
(* C18.  Every value getProxyAddress returns is the absence value or '0x'  *)
(* followed by exactly 40 hexadecimal digits, whatever the requests        *)
(* fulfil with.                                                            *)
(***************************************************************************)
C18_WellFormedResult ==
    pc = "done" => (result = undefined \/ WellFormedAddress(result))

(***************************************************************************)
(* C19.  When every request the call sends settles, the call returns; once *)
(* a probe has fulfilled with a valid address the return is ready without  *)
(* the remaining probes, and while no probe has fulfilled and one is       *)
(* pending nothing but a probe's settling lets the call go on.             *)
(***************************************************************************)
C19_Returns ==
    /\ <>(pc = "done")
    /\ []((pc = "race" /\ first # undefined) => ENABLED Resume)
    /\ []((pc = "race" /\ first = undefined /\ PendingProbes # {}) => ~ENABLED Resume)

\* the call has returned an address while probes are still pending
C19_Witness ==
    /\ pc = "done"
    /\ result = <<"0", "x">> \o AddressA
    /\ Cardinality(PendingProbes) = 6

(***************************************************************************)
(* C15.  getErcByNode terminates on every proxy graph, cycles included;    *)
(* no address is fetched more than once, an address in the visited set is  *)
(* never fetched again; on the chain A -> B -> token contract, with A and  *)
(* B forwarders, the result is the standard of the token contract.         *)
(***************************************************************************)
\* the chain A -> B -> T with forwarders at A and B
TwoHopChain ==
    /\ targetsOf = [n \in NodeSet |-> IF n = "A" THEN {"B"} ELSE IF n = "B" THEN {"T"} ELSE {}]
    /\ ~isStandard(getErcByBytecode(<<"0", "x">> \o codeAt["A"]))
    /\ ~isStandard(getErcByBytecode(<<"0", "x">> \o codeAt["B"]))

C15_Visits ==
    /\ \A n \in NodeSet : fetches[n] <= 1
    /\ \A n \in NodeSet : fetches[n] = 1 <=> (n \in visited \/ (n = "A" /\ position = "done"))
    /\ (position = "done" /\ TwoHopChain) =>
           result = getErcByBytecode(<<"0", "x">> \o codeAt["T"])

C15_ResolverTerminates ==
    /\ [](C15_Visits)
    /\ [][\A n \in visited : fetches'[n] = fetches[n]]_vars
    /\ <>(position = "done")

\* A and B point at each other and B also at the ERC721 token T: every
\* address was fetched once and the result is ERC721
C15_Witness ==
    /\ position = "done"
    /\ targetsOf["A"] = {"B"}
    /\ targetsOf["B"] = {"A", "T"}
    /\ fetches = [n \in NodeSet |-> 1]
    /\ ~isStandard(getErcByBytecode(<<"0", "x">> \o codeAt["B"]))
    /\ result = <<"ERC721">>

====
